---- MODULE Spec2Model ----
(***************************************************************************)
(* Model of SyringePump (backend/hardware/reagentdispenser/syringepump.py): *)
(* the constructor that calibrates each configured axis and pushes the      *)
(* steps/mm and max mm/min settings to the grbl controller, dispense, and   *)
(* getPumpSpeedLimits.                                                      *)
(*                                                                          *)
(* Numbers.  The code computes in Python numbers (int and float).  The      *)
(* model computes in exact rationals <<n, d>> with d > 0 and gcd(n, d) = 1, *)
(* so float rounding is abstracted away; a division by zero raises          *)
(* ZeroDivisionError as it does in Python for int and float alike.          *)
(*                                                                          *)
(* Transport.  grblSer is the stream of commands handed to grblWrite on the *)
(* serial handle, in order.  A command is the sequence of the fragments of  *)
(* its format string with the substituted values in place.                  *)
(***************************************************************************)
EXTENDS Integers, Sequences, FiniteSets, TLC

VARIABLES pc, syringePumpsConfig, axisMinmmPerMin, grblSer, ret, dispensed, limitsSeen

vars == <<pc, syringePumpsConfig, axisMinmmPerMin, grblSer, ret, dispensed, limitsSeen>>

(***************************************************************************)
(* Bounds of the model.                                                     *)
(***************************************************************************)
\* dispense calls on a configured axis per run
MaxDispense == 2
\* volumes are the integers -MaxVolume..MaxVolume (ml)
MaxVolume == 1
\* dispense calls on a configured axis per run in which the speed limits are
\* read as well
MaxBetween == 1

(***************************************************************************)
(* Python arithmetic on exact rationals.                                    *)
(***************************************************************************)
Abs(n) == IF n < 0 THEN -n ELSE n

RECURSIVE GCD(_, _)
GCD(a, b) == IF b = 0 THEN a ELSE GCD(b, a % b)

\* the number n/d (d # 0) in canonical form
Rat(n, d) ==
    LET s == IF d < 0 THEN -1 ELSE 1
        g == GCD(Abs(n), Abs(d))
    IN  <<(s * n) \div g, (s * d) \div g>>

R(n) == <<n, 1>>

IsZero(a) == a[1] = 0

\* a * b
RMul(a, b) == Rat(a[1] * b[1], a[2] * b[2])

\* a / b, for b # 0 (the callers raise ZeroDivisionError otherwise)
RDiv(a, b) == Rat(a[1] * b[2], a[2] * b[1])

RLe(a, b) == a[1] * b[2] <= b[1] * a[2]

RLt(a, b) == a[1] * b[2] < b[1] * a[2]

\* min(a, b)
RMin(a, b) == IF RLe(a, b) THEN a ELSE b

\* abs(a)
RAbs(a) == <<Abs(a[1]), a[2]>>

\* math.ceil(a)
RCeil(a) == R(-((-a[1]) \div a[2]))

(***************************************************************************)
(* Configuration: the dict syringePumpsConfig in insertion order, one       *)
(* record per axis.                                                         *)
(***************************************************************************)
AxisConfig(axis, mmPerRev, stepsPerRev, mmPerml, maxmmPerMin) ==
    [axis |-> axis, mmPerRev |-> mmPerRev, stepsPerRev |-> stepsPerRev,
     mmPerml |-> mmPerml, maxmmPerMin |-> maxmmPerMin]

\* the keys of the dict
Axes(config) == {config[i].axis : i \in DOMAIN config}

\* `pumpId in config`: the lookup config[pumpId] raises KeyError otherwise
HasAxis(config, pumpId) == pumpId \in Axes(config)

\* config[pumpId], for pumpId in Axes(config)
Cfg(config, pumpId) == config[CHOOSE i \in DOMAIN config : config[i].axis = pumpId]

\* configurations that meet the documented constraint (every field > 0)
ValidConfigs ==
    { <<AxisConfig("X", 8, 200, 50, 500)>>,
      <<AxisConfig("Y", 2, 400, 1, 60), AxisConfig("X", 8, 200, 50, 500)>> }

\* configurations the constructor also accepts as arguments: a field that is
\* zero or negative, an axis name the controller does not know
UncheckedConfigs ==
    { <<AxisConfig("X", 8, 200, 50, 500), AxisConfig("Y", 0, 400, 1, 60)>>,
      <<AxisConfig("X", 8, 200, 50, 500), AxisConfig("Y", 2, 0, 1, 60)>>,
      <<AxisConfig("X", 8, 200, 50, 500), AxisConfig("Y", 2, 400, 1, -60)>>,
      <<AxisConfig("Y", 2, 400, -1, 60)>>,
      <<AxisConfig("X", 0, 200, 50, 500)>>,
      <<AxisConfig("Y", 2, 400, 1, 60), AxisConfig("A", 2, 400, 1, 60)>> }

PumpIds == {"X", "Y", "Z"}

\* volumes in ml: withdrawal, nothing, dispensing
Volumes == (-MaxVolume)..MaxVolume

\* duration=None
None == <<>>

Some(d) == <<d>>

\* durations in s: omitted, negative, zero, positive
Durations == {None, Some(-1), Some(0), Some(1), Some(2)}

(***************************************************************************)
(* grblWrite and the commands.                                              *)
(***************************************************************************)
\* self.grblWrite(self.grblSer, command)
grblWrite(ser, command) == Append(ser, command)

axisToCNCID == [a \in {"X", "Y", "Z"} |-> CASE a = "X" -> "0" [] a = "Y" -> "1" [] a = "Z" -> "2"]

\* "$10{0}={1}\n".format(id, stepsPerMM)
StepsCommand(id, value) == <<"$10", id, "=", value, "\n">>

\* "$11{0}={1}\n".format(id, maxmmPerMin)
MaxCommand(id, value) == <<"$11", id, "=", value, "\n">>

\* "G91 G1 {0}{1} F{2}\n".format(pumpId, totalmm, dispenseSpeed)
MotionCommand(pumpId, distance, speed) == <<"G91 G1 ", pumpId, distance, " F", speed, "\n">>

IsSteps(command) == command[1] = "$10"

IsMax(command) == command[1] = "$11"

IsMotion(command) == command[1] = "G91 G1 "

\* the axis or controller id a command names
AxisOf(command) == command[2]

DistanceOf(command) == command[3]

FeedOf(command) == command[5]

(***************************************************************************)
(* __init__                                                                 *)
(***************************************************************************)
\* the dict with d[key] = value set
DictSet(d, key, value) ==
    [k \in DOMAIN d \cup {key} |-> IF k = key THEN value ELSE d[k]]

EmptyDict == [k \in {} |-> R(0)]

\* variant: the max mm/min setting is written first
ConfigWritesMaxFirst(ser, id, stepsPerMM, maxmmPerMin) ==
    grblWrite(grblWrite(ser, MaxCommand(id, maxmmPerMin)), StepsCommand(id, stepsPerMM))

\* the two configuration writes of one axis, in the order of the code
ConfigWrites(ser, id, stepsPerMM, maxmmPerMin) ==
    grblWrite(grblWrite(ser, StepsCommand(id, stepsPerMM)), MaxCommand(id, maxmmPerMin))

\* the loop of the constructor from item i on; an exception ends the loop and
\* leaves what the earlier iterations did
RECURSIVE calibrate(_, _, _, _)
calibrate(config, i, minmm, ser) ==
    IF i > Len(config)
    THEN [axisMinmmPerMin |-> minmm, grblSer |-> ser, outcome |-> "return", error |-> ""]
    ELSE LET c == config[i] IN
         IF c.mmPerRev = 0
         THEN [axisMinmmPerMin |-> minmm, grblSer |-> ser,
               outcome |-> "raise", error |-> "ZeroDivisionError"]
         ELSE LET stepsPerMM == RDiv(R(c.stepsPerRev), R(c.mmPerRev)) IN
              IF IsZero(stepsPerMM)
              THEN [axisMinmmPerMin |-> minmm, grblSer |-> ser,
                    outcome |-> "raise", error |-> "ZeroDivisionError"]
              ELSE LET minmm2 == DictSet(minmm, c.axis,
                                         RCeil(RMul(RDiv(R(30), stepsPerMM), R(120))))
                   IN  IF c.axis \notin DOMAIN axisToCNCID
                       THEN [axisMinmmPerMin |-> minmm2, grblSer |-> ser,
                             outcome |-> "raise", error |-> "KeyError"]
                       ELSE calibrate(config, i + 1, minmm2,
                                      ConfigWrites(ser, axisToCNCID[c.axis], stepsPerMM,
                                                   R(c.maxmmPerMin)))

NoCall == [op |-> "", pumpId |-> "", outcome |-> "", error |-> "", writes |-> 0]

Construct ==
    /\ pc = "new"
    /\ LET r == calibrate(syringePumpsConfig, 1, EmptyDict, grblSer) IN
        /\ axisMinmmPerMin' = r.axisMinmmPerMin
        /\ grblSer' = r.grblSer
        /\ pc' = IF r.outcome = "return" THEN "ready" ELSE "failed"
        /\ ret' = [op |-> "__init__", pumpId |-> "", outcome |-> r.outcome,
                   error |-> r.error, writes |-> Len(r.grblSer) - Len(grblSer)]
    /\ UNCHANGED <<syringePumpsConfig, dispensed, limitsSeen>>

(***************************************************************************)
(* dispense                                                                 *)
(***************************************************************************)
\* `if duration:`
Truthy(duration) == duration # None /\ duration[1] # 0

\* (volume / duration) * 60 * mmPerml, for a duration that is not zero
requestedRate(c, volume, duration) ==
    RMul(RMul(RDiv(R(volume), R(duration[1])), R(60)), R(c.mmPerml))

\* variant: the requested rate is used as it is, without the min against the ceiling
dispenseSpeedUncapped(c, volume, duration) ==
    IF Truthy(duration)
    THEN requestedRate(c, volume, duration)
    ELSE R(c.maxmmPerMin)

dispenseSpeed(c, volume, duration) ==
    IF Truthy(duration)
    THEN RMin(requestedRate(c, volume, duration), R(c.maxmmPerMin))
    ELSE R(c.maxmmPerMin)

totalmm(c, volume) == RMul(R(volume), R(c.mmPerml))

\* variant: the speed in mm/min is not converted to mm/s
dispenseTimePerMinute(distance, speed) == RDiv(RAbs(distance), speed)

\* abs(totalmm) / (dispenseSpeed / 60), for a speed that is not zero
dispenseTime(distance, speed) == RDiv(RAbs(distance), RDiv(speed, R(60)))

\* variant: the command is written again after the first write
dispenseWritesTwice(ser, pumpId, distance, speed) ==
    grblWrite(grblWrite(ser, MotionCommand(pumpId, distance, speed)),
              MotionCommand(pumpId, distance, speed))

\* the writes of one dispense call on a configured axis
dispenseWrites(ser, pumpId, distance, speed) ==
    grblWrite(ser, MotionCommand(pumpId, distance, speed))

\* dispense from line 86 on, with the configuration c of the axis looked up
dispenseOn(c, ser, pumpId, volume, duration) ==
    LET speed == dispenseSpeed(c, volume, duration)
        distance == totalmm(c, volume)
        ser2 == dispenseWrites(ser, pumpId, distance, speed)
    IN  IF IsZero(speed)
        THEN [grblSer |-> ser2, outcome |-> "raise", error |-> "ZeroDivisionError",
              elapsed |-> R(0)]
        ELSE [grblSer |-> ser2, outcome |-> "return", error |-> "",
              elapsed |-> dispenseTime(distance, speed)]

\* variant: an axis that is not configured falls back to the first configured one
dispenseFirstAxis(config, ser, pumpId, volume, duration) ==
    dispenseOn(IF HasAxis(config, pumpId) THEN Cfg(config, pumpId) ELSE config[1],
               ser, pumpId, volume, duration)

dispense(config, ser, pumpId, volume, duration) ==
    IF ~HasAxis(config, pumpId)
    THEN [grblSer |-> ser, outcome |-> "raise", error |-> "KeyError", elapsed |-> R(0)]
    ELSE dispenseOn(Cfg(config, pumpId), ser, pumpId, volume, duration)

\* what a call appended to the stream
Sent(before, after) == SubSeq(after, Len(before) + 1, Len(after))

\* variant: the speed of the call is stored in the per-axis minimum map
DispenseStoringSpeed(pumpId, volume, duration) ==
    /\ pc = "ready"
    /\ Len(dispensed) < MaxDispense
    /\ LET r == dispense(syringePumpsConfig, grblSer, pumpId, volume, duration) IN
        /\ grblSer' = r.grblSer
        /\ ret' = [op |-> "dispense", pumpId |-> pumpId, outcome |-> r.outcome,
                   error |-> r.error, writes |-> Len(r.grblSer) - Len(grblSer)]
        /\ dispensed' = IF r.error = "KeyError" THEN dispensed
                        ELSE Append(dispensed,
                                    [pumpId |-> pumpId, volume |-> volume,
                                     duration |-> duration, outcome |-> r.outcome,
                                     error |-> r.error, elapsed |-> r.elapsed,
                                     sent |-> Sent(grblSer, r.grblSer)])
        /\ axisMinmmPerMin' =
              IF HasAxis(syringePumpsConfig, pumpId)
              THEN DictSet(axisMinmmPerMin, pumpId,
                           dispenseSpeed(Cfg(syringePumpsConfig, pumpId), volume, duration))
              ELSE axisMinmmPerMin
    /\ UNCHANGED <<pc, syringePumpsConfig, limitsSeen>>

Dispense(pumpId, volume, duration) ==
    /\ pc = "ready"
    /\ Len(dispensed) < MaxDispense
    /\ LET r == dispense(syringePumpsConfig, grblSer, pumpId, volume, duration) IN
        /\ grblSer' = r.grblSer
        /\ ret' = [op |-> "dispense", pumpId |-> pumpId, outcome |-> r.outcome,
                   error |-> r.error, writes |-> Len(r.grblSer) - Len(grblSer)]
        /\ dispensed' = IF r.error = "KeyError" THEN dispensed
                        ELSE Append(dispensed,
                                    [pumpId |-> pumpId, volume |-> volume,
                                     duration |-> duration, outcome |-> r.outcome,
                                     error |-> r.error, elapsed |-> r.elapsed,
                                     sent |-> Sent(grblSer, r.grblSer)])
    /\ UNCHANGED <<pc, syringePumpsConfig, axisMinmmPerMin, limitsSeen>>

(***************************************************************************)
(* getPumpSpeedLimits                                                       *)
(***************************************************************************)
\* the returned dict, for a configured axis with mmPerml # 0
getPumpSpeedLimits(config, minmm, pumpId) ==
    LET c == Cfg(config, pumpId) IN
    [minSpeed |-> RDiv(RDiv(minmm[pumpId], R(c.mmPerml)), R(60)),
     maxSpeed |-> RDiv(RDiv(R(c.maxmmPerMin), R(c.mmPerml)), R(60))]

GetPumpSpeedLimits(pumpId) ==
    /\ pc = "ready"
    /\ LET known == HasAxis(syringePumpsConfig, pumpId)
           zero == known /\ Cfg(syringePumpsConfig, pumpId).mmPerml = 0
       IN
        /\ ret' = [op |-> "getPumpSpeedLimits", pumpId |-> pumpId,
                   outcome |-> IF known /\ ~zero THEN "return" ELSE "raise",
                   error |-> IF ~known THEN "KeyError"
                             ELSE IF zero THEN "ZeroDivisionError" ELSE "",
                   writes |-> 0]
        /\ limitsSeen' =
              IF known /\ ~zero
              THEN [limitsSeen EXCEPT ![pumpId] =
                       @ \cup {<<getPumpSpeedLimits(syringePumpsConfig, axisMinmmPerMin,
                                                     pumpId), Len(dispensed)>>}]
              ELSE limitsSeen
    /\ UNCHANGED <<pc, syringePumpsConfig, axisMinmmPerMin, grblSer, dispensed>>

(***************************************************************************)
(* Specifications                                                           *)
(***************************************************************************)
InitWith(configs) ==
    /\ pc = "new"
    /\ syringePumpsConfig \in configs
    /\ axisMinmmPerMin = EmptyDict
    /\ grblSer = <<>>
    /\ ret = NoCall
    /\ dispensed = <<>>
    /\ limitsSeen = [a \in PumpIds |-> {}]

\* the driver on a configuration that meets the documented constraint
Init == InitWith(ValidConfigs)

\* the driver on any configuration the constructor can be handed
InitAnyConfig == InitWith(ValidConfigs \cup UncheckedConfigs)

\* construction and dispense calls
Next ==
    \/ Construct
    \/ \E pumpId \in PumpIds, volume \in Volumes, duration \in Durations :
          Dispense(pumpId, volume, duration)

\* construction, dispense calls and reads of the speed limits in any order
NextLimits ==
    \/ Construct
    \/ \E pumpId \in PumpIds, volume \in Volumes, duration \in Durations :
          Len(dispensed) < MaxBetween /\ Dispense(pumpId, volume, duration)
    \/ \E pumpId \in PumpIds : GetPumpSpeedLimits(pumpId)

Spec == Init /\ [][Next]_vars

SpecAnyConfig == InitAnyConfig /\ [][Next]_vars

SpecLimits == Init /\ [][NextLimits]_vars

(***************************************************************************)
(* Properties                                                               *)
(***************************************************************************)
\* the configuration of the axis of the i-th logged dispense call
CfgOf(i) == Cfg(syringePumpsConfig, dispensed[i].pumpId)

\* the i-th logged call supplied a non-zero duration and asked for the rate
\* (volume / duration) * 60 * mmPerml
Requested(i) == requestedRate(CfgOf(i), dispensed[i].volume, dispensed[i].duration)

HasRate(i) == dispensed[i].duration # None /\ dispensed[i].duration[1] # 0

\* C1: every relative-motion command in the stream carries a feed rate that
\* is at most the maxmmPerMin configured for the axis the command names.
FeedRateWithinMax ==
    \A j \in DOMAIN grblSer :
        IsMotion(grblSer[j]) =>
            RLe(FeedOf(grblSer[j]),
                R(Cfg(syringePumpsConfig, AxisOf(grblSer[j])).maxmmPerMin))

\* a call that asked for more than the ceiling has written its command
FeedRateWithinMaxWitness ==
    \E i \in DOMAIN dispensed :
        /\ HasRate(i)
        /\ RLt(R(CfgOf(i).maxmmPerMin), Requested(i))
        /\ \E j \in DOMAIN grblSer : IsMotion(grblSer[j])

\* C2: clamping law: a dispense call whose requested rate is greater than
\* the axis's maxmmPerMin returns, its command carries maxmmPerMin as feed
\* rate, and the returned time is strictly greater than the duration.
ClampingLaw ==
    \A i \in DOMAIN dispensed :
        (HasRate(i) /\ RLt(R(CfgOf(i).maxmmPerMin), Requested(i))) =>
            /\ dispensed[i].outcome = "return"
            /\ Len(dispensed[i].sent) = 1
            /\ IsMotion(dispensed[i].sent[1])
            /\ FeedOf(dispensed[i].sent[1]) = R(CfgOf(i).maxmmPerMin)
            /\ RLt(R(dispensed[i].duration[1]), dispensed[i].elapsed)

\* a clamped call with a positive volume and a positive duration has returned
ClampingLawWitness ==
    \E i \in DOMAIN dispensed :
        /\ HasRate(i)
        /\ dispensed[i].volume > 0
        /\ dispensed[i].duration[1] > 0
        /\ RLt(R(CfgOf(i).maxmmPerMin), Requested(i))
        /\ dispensed[i].outcome = "return"

\* C3: no-clamp case: a dispense call with a non-zero volume of either sign
\* and a positive duration whose requested rate is below maxmmPerMin emits
\* the requested rate as feed rate and returns the requested duration.
NoClampLaw ==
    \A i \in DOMAIN dispensed :
        ( /\ dispensed[i].duration # None
          /\ dispensed[i].duration[1] > 0
          /\ dispensed[i].volume # 0
          /\ RLt(Requested(i), R(CfgOf(i).maxmmPerMin)) ) =>
            /\ dispensed[i].outcome = "return"
            /\ Len(dispensed[i].sent) = 1
            /\ FeedOf(dispensed[i].sent[1]) = Requested(i)
            /\ dispensed[i].elapsed = R(dispensed[i].duration[1])

\* C4: construction writes for each configured axis, in the order of the
\* configuration, the steps-per-mm directive immediately followed by the
\* max-feed-rate directive of the same axis and no other directive, and
\* every relative-motion command in the stream names a configured axis and
\* comes after all of them.
ConfigBeforeMotion ==
    pc = "ready" =>
        LET n == Len(syringePumpsConfig) IN
        /\ Len(grblSer) >= 2 * n
        /\ \A i \in 1..n :
              LET id == axisToCNCID[syringePumpsConfig[i].axis] IN
              /\ IsSteps(grblSer[2 * i - 1])
              /\ AxisOf(grblSer[2 * i - 1]) = id
              /\ IsMax(grblSer[2 * i])
              /\ AxisOf(grblSer[2 * i]) = id
        /\ \A j \in DOMAIN grblSer :
              j > 2 * n => /\ IsMotion(grblSer[j])
                           /\ HasAxis(syringePumpsConfig, AxisOf(grblSer[j]))

\* two axes are configured and a motion command has been written
ConfigBeforeMotionWitness ==
    /\ pc = "ready"
    /\ Len(syringePumpsConfig) = 2
    /\ \E j \in DOMAIN grblSer : IsMotion(grblSer[j])

\* C5: when every dispense call so far has returned a result, the stream
\* holds the configuration directives of construction followed by exactly
\* one relative-motion command per call, in call order.
OneWritePerDispense ==
    (pc = "ready" /\ \A i \in DOMAIN dispensed : dispensed[i].outcome = "return") =>
        LET m == SelectSeq(grblSer, IsMotion) IN
        /\ Len(m) = Len(dispensed)
        /\ Len(grblSer) = 2 * Len(syringePumpsConfig) + Len(dispensed)
        /\ \A i \in DOMAIN dispensed :
              /\ dispensed[i].sent = <<m[i]>>
              /\ AxisOf(m[i]) = dispensed[i].pumpId
              /\ DistanceOf(m[i]) = RMul(R(dispensed[i].volume), R(CfgOf(i).mmPerml))

\* two calls on different axes have returned
OneWritePerDispenseWitness ==
    /\ pc = "ready"
    /\ Len(dispensed) >= 2
    /\ \A i \in DOMAIN dispensed : dispensed[i].outcome = "return"
    /\ dispensed[1].pumpId # dispensed[2].pumpId

\* some axis has a field that is zero or negative
NonPositive(config) ==
    \E i \in DOMAIN config :
        \/ config[i].mmPerRev <= 0
        \/ config[i].stepsPerRev <= 0
        \/ config[i].mmPerml <= 0
        \/ config[i].maxmmPerMin <= 0

\* C6: construction with a configuration in which some axis has a
\* non-positive field fails before any protocol write: once the
\* constructor has run, it has raised and the stream is empty.
InvalidConfigurationFailsClosed ==
    (pc # "new" /\ NonPositive(syringePumpsConfig)) =>
        (pc = "failed" /\ ret.outcome = "raise" /\ grblSer = <<>>)

\* C7: a dispense call that names an axis absent from the configuration
\* raises, writes nothing, and leaves the configuration and the derived
\* per-axis map as they were.
UnknownAxisRejected ==
    [][ (ret'.op = "dispense" /\ ~HasAxis(syringePumpsConfig, ret'.pumpId)) =>
            /\ ret'.outcome = "raise"
            /\ grblSer' = grblSer
            /\ syringePumpsConfig' = syringePumpsConfig
            /\ axisMinmmPerMin' = axisMinmmPerMin ]_vars

\* an unknown axis was named after a dispense call that returned
UnknownAxisRejectedWitness ==
    /\ ret.op = "dispense"
    /\ ~HasAxis(syringePumpsConfig, ret.pumpId)
    /\ Len(dispensed) >= 1
    /\ dispensed[1].outcome = "return"

\* C8: a dispense call on a configured axis with volume zero is rejected:
\* it raises and writes no command.
ZeroVolumeRejected ==
    \A i \in DOMAIN dispensed :
        dispensed[i].volume = 0 =>
            (dispensed[i].outcome = "raise" /\ dispensed[i].sent = <<>>)

\* C9: a dispense call on a configured axis with a supplied duration that
\* is zero or negative is rejected: it raises and writes no command.
NonPositiveDurationRejected ==
    \A i \in DOMAIN dispensed :
        (dispensed[i].duration # None /\ dispensed[i].duration[1] <= 0) =>
            (dispensed[i].outcome = "raise" /\ dispensed[i].sent = <<>>)

\* C10: once constructed, no call changes the configuration or the derived
\* minimum map, getPumpSpeedLimits writes nothing, and all the results
\* getPumpSpeedLimits has returned for one axis are identical.
SpeedLimitsStable ==
    [][ pc = "ready" =>
            /\ syringePumpsConfig' = syringePumpsConfig
            /\ axisMinmmPerMin' = axisMinmmPerMin
            /\ (ret'.op = "getPumpSpeedLimits" => grblSer' = grblSer)
            /\ \A a \in PumpIds :
                  \A x, y \in limitsSeen'[a] : x[1] = y[1] ]_vars

\* the limits of one axis were read before and after a dispense call
SpeedLimitsStableWitness ==
    \E a \in PumpIds :
        \E x, y \in limitsSeen[a] : x[2] < y[2]
====
